---- MODULE Spec2Model ----
(***************************************************************************)
(* One run of an Apify Twitter scraper script, in its three variants:      *)
(*   "client"  src/shared/twitter_scraper.py         (apify_client)        *)
(*   "simple"  src/shared/twitter_scraper_simple.py  (requests)            *)
(*   "debug"   src/shared/twitter_scraper_debug.py   (urllib, strict exit) *)
(* A run parses its arguments, checks the credential, submits a job,       *)
(* polls its status, fetches the result set, normalizes the records,       *)
(* writes the report file and prints a JSON result.  Further down: the     *)
(* file-stat tool src/shared/analyzer.py, and two scraper runs writing     *)
(* their reports into the shared reports directory at the same time.       *)
(*                                                                         *)
(* Python values are modelled as strings: "None" is None, "" the empty     *)
(* string, "0" the integer 0, "False" the boolean False; every other       *)
(* string is a truthy value.  A raw record (a dict) is a function from     *)
(* the keys it holds to their values.                                      *)
(***************************************************************************)
EXTENDS Integers, Sequences, FiniteSets, TLC

VARIABLES
    variant,        \* which script runs
    hasUsername,    \* a username was given (argument or environment)
    tokenEnv,       \* value of the APIFY_API_TOKEN environment variable
    tweets_count,   \* args.tweets_count
    pc,             \* position of the run
    waited,         \* poll loop: seconds slept so far
    status,         \* poll loop: status of the last status payload
    datasetField,   \* defaultDatasetId of the last status payload
    submits,        \* submit requests received by the service
    queries,        \* status requests received by the service
    fetches,        \* result-set requests received by the service
    allRunning,     \* every status payload so far said RUNNING
    items,          \* the fetched result set
    idx,            \* normalization loop: next record
    tweets,         \* normalization loop: content items so far
    profile,        \* normalization loop: profile_data
    report,         \* full_data, once built
    dirExists,      \* the reports directory exists
    fileExists,     \* the report file exists at the output path
    fileChunks,     \* chunks of the serialized report a reader finds in it
    stdout,         \* status of each JSON object printed, in order
    exitCode,       \* process exit code, -1 while running
    failure,        \* which failure ended the run, "none" otherwise
    input,          \* analyzer.py: what --input_file names
    analysis,       \* analyzer.py: analysis_result
    runs,           \* concurrent runs: each run's position and locals
    disk,           \* concurrent runs: the reports directory and its files
    clock           \* concurrent runs: the wall clock, in seconds

vars == <<variant, hasUsername, tokenEnv, tweets_count, pc, waited, status,
          datasetField, submits, queries, fetches, allRunning, items, idx,
          tweets, profile, report, dirExists, fileExists, fileChunks,
          stdout, exitCode, failure, input, analysis, runs, disk, clock>>

----------------------------------------------------------------------------
(* Bounds and program constants *)

\* longest result set the service returns in a full run
MaxItems == 2

\* argparse default of --tweets_count
DefaultTweetsCount == 50

\* the tweets_count of the spec's scenario
ScenarioTweetsCount == 5

\* time.sleep(5); waited += 5
PollInterval == 5

MaxWaitDebug == 120

MaxWaitSimple == 60

Variants == {"client", "simple", "debug"}

TweetsCounts == {ScenarioTweetsCount, DefaultTweetsCount}

\* APIFY_API_TOKEN: unset, a token of the service, some other text
TokenEnvs == {"", "apify_api_x", "other"}

\* run statuses of the service
Statuses == {"READY", "RUNNING", "SUCCEEDED", "FAILED", "ABORTED", "TIMED-OUT"}

\* the terminal statuses of the specification
TerminalSpec == {"SUCCEEDED", "FAILED", "ABORTED", "TIMED-OUT"}

\* defaultDatasetId in a status payload: key absent, null, an id
DatasetFields == {"absent", "None", "ds1"}

----------------------------------------------------------------------------
(* Python values *)

PyNone == "None"

Falsy == {"None", "", "0", "False"}

Truthy(v) == v \notin Falsy

\* a or b
PyOr(a, b) == IF Truthy(a) THEN a ELSE b

\* item.get(k, d)
Get(item, k, d) == IF k \in DOMAIN item THEN item[k] ELSE d

\* profile_data = None
NoProfile == [is_none |-> TRUE]

\* the username after lstrip('@')
Username == "user"

\* what the scraper runs leave alone: the analyzer's input and result, and
\* the state of the concurrent runs
NoInput == [kind |-> "none"]

NoAnalysis == [is_none |-> TRUE]

NoRuns == <<>>

NoDisk == [dir |-> FALSE]

----------------------------------------------------------------------------
(* Raw records of a result set *)

RTweet == [type |-> "tweet", text |-> "hello"]

RProfile == [type |-> "profile", followersCount |-> "7"]

RBareTweet == [type |-> "tweet"]

RJunk == [lang |-> "en"]

RTextOnly == [text |-> "hi"]

RFollowersOnly == [followersCount |-> "3"]

CoreRecords == {RTweet, RProfile, RBareTweet, RJunk, RTextOnly, RFollowersOnly}

\* the result sets of at most n records
ItemLists(n) == UNION {[1..k -> CoreRecords] : k \in 0..n}

\* 5 content records and 1 profile record, the profile at any place
ScenarioLists == {[i \in 1..6 |-> IF i = p THEN RProfile ELSE RTweet] : p \in 1..6}

\* a value a key may hold: a truthy one (the key's own name), '' or None
KeyVals(k) == {k, "", "None"}

\* every dict over some of the keys, merged into base
Family(keys, base) ==
    {f @@ base : f \in UNION {{g \in [S -> UNION {KeyVals(k) : k \in keys}] :
                                    \A k \in S : g[k] \in KeyVals(k)} :
                               S \in SUBSET keys}}

TextKeys == {"text", "full_text", "content"}
CreatedKeys == {"createdAt", "created_at", "date"}
RetweetKeys == {"retweetCount", "retweet_count"}
LikeKeys == {"likeCount", "favorite_count", "like_count"}
ReplyKeys == {"replyCount", "reply_count"}
UrlKeys == {"url", "tweetUrl"}
IdKeys == {"id", "id_str"}

AliasRecords ==
    Family(TextKeys, RJunk) \cup Family(UrlKeys, RJunk)
      \cup Family(CreatedKeys, RTextOnly) \cup Family(RetweetKeys, RTextOnly)
      \cup Family(LikeKeys, RTextOnly) \cup Family(ReplyKeys, RTextOnly)
      \cup Family(IdKeys, RTextOnly)

----------------------------------------------------------------------------
(* Normalization *)

\* item.get('type') == 'profile' or 'followersCount' in item
IsProfile(item) ==
    Get(item, "type", PyNone) = "profile" \/ "followersCount" \in DOMAIN item

\* item.get('type') == 'tweet'
IsTypedTweet(item) == Get(item, "type", PyNone) = "tweet"

ProfileOf(item) ==
    [username        |-> Get(item, "username", Username),
     display_name    |-> Get(item, "name", ""),
     description     |-> Get(item, "description", ""),
     followers_count |-> Get(item, "followersCount", "0"),
     following_count |-> Get(item, "followingCount", "0"),
     tweets_count    |-> Get(item, "tweetsCount", "0"),
     verified        |-> Get(item, "verified", "False")]

TextValSwapped(item) ==
    PyOr(PyOr(Get(item, "full_text", PyNone), Get(item, "text", PyNone)),
         Get(item, "content", ""))

TextVal(item) ==
    PyOr(PyOr(Get(item, "text", PyNone), Get(item, "full_text", PyNone)),
         Get(item, "content", ""))

CreatedVal(item) ==
    PyOr(PyOr(Get(item, "createdAt", PyNone), Get(item, "created_at", PyNone)),
         Get(item, "date", PyNone))

RetweetsVal(item) == Get(item, "retweetCount", Get(item, "retweet_count", "0"))

LikesVal(item) ==
    Get(item, "likeCount", Get(item, "favorite_count", Get(item, "like_count", "0")))

RepliesVal(item) == Get(item, "replyCount", Get(item, "reply_count", "0"))

UrlVal(item) == PyOr(PyOr(Get(item, "url", PyNone), Get(item, "tweetUrl", PyNone)), "")

TidVal(item) == PyOr(Get(item, "id", PyNone), Get(item, "id_str", PyNone))

KeepAlways(text_val, url_val) == TRUE

\* if text_val or url_val
KeepTweet(text_val, url_val) == Truthy(text_val) \/ Truthy(url_val)

\* the content item of twitter_scraper.py
ClientTweet(item) ==
    [id            |-> TidVal(item),
     text          |-> TextVal(item),
     created_at    |-> CreatedVal(item),
     retweet_count |-> RetweetsVal(item),
     like_count    |-> LikesVal(item),
     reply_count   |-> RepliesVal(item),
     url           |-> UrlVal(item)]

\* the content item of twitter_scraper_simple.py and twitter_scraper_debug.py
TypedTweet(item) ==
    [id            |-> Get(item, "id", PyNone),
     text          |-> Get(item, "text", ""),
     created_at    |-> Get(item, "createdAt", PyNone),
     retweet_count |-> Get(item, "retweetCount", "0"),
     like_count    |-> Get(item, "likeCount", "0"),
     reply_count   |-> Get(item, "replyCount", "0"),
     url           |-> Get(item, "url", "")]

\* one iteration of the loop over items: the new tweets and profile_data
NormalizeItem(v, item, tw, prof) ==
    IF v = "client"
    THEN IF IsProfile(item)
         THEN [tweets |-> tw, profile |-> ProfileOf(item)]
         ELSE IF KeepTweet(TextVal(item), UrlVal(item))
              THEN [tweets |-> Append(tw, ClientTweet(item)), profile |-> prof]
              ELSE [tweets |-> tw, profile |-> prof]
    ELSE IF IsTypedTweet(item)
         THEN [tweets |-> Append(tw, TypedTweet(item)), profile |-> prof]
         ELSE IF IsProfile(item)
              THEN [tweets |-> tw, profile |-> ProfileOf(item)]
              ELSE [tweets |-> tw, profile |-> prof]

----------------------------------------------------------------------------
(* The report *)

NoReport == [is_none |-> TRUE]

MetadataRequested(requested, tw) ==
    [username |-> Username, tweets_requested |-> requested, tweets_found |-> requested]

\* full_data['metadata'] (scraped_at left out: it is the wall clock)
Metadata(requested, tw) ==
    [username |-> Username, tweets_requested |-> requested, tweets_found |-> Len(tw)]

FullData(v, requested, tw, prof, ds) ==
    IF v = "debug"
    THEN [metadata |-> Metadata(requested, tw), profile |-> prof, tweets |-> tw,
          dataset_url |-> ds]
    ELSE [metadata |-> Metadata(requested, tw), profile |-> prof, tweets |-> tw]

\* json.dump writes the document to the file piece by piece: one chunk per
\* top-level key of the document
DumpTotal(rep) == Cardinality(DOMAIN rep)

----------------------------------------------------------------------------
(* The run *)

\* the token the script uses: twitter_scraper.py sets apify_token = "" and
\* never reads the environment; the debug script falls back to
\* HARDCODED_APIFY_TOKEN = ""
Token(v, env) == IF v = "client" THEN "" ELSE env

\* the credential check passes
TokenOk(v, tok) ==
    IF v = "debug" THEN tok /= "" /\ tok = "apify_api_x" ELSE tok /= ""

\* exit code of the missing-credential branch: sys.exit(1) / return
NoTokenExit(v) == IF v = "debug" THEN 1 ELSE 0

\* exit code of the empty-result branch: sys.exit(2) / return
EmptyExit(v) == IF v = "debug" THEN 2 ELSE 0

HandlerExitLenient(v) == 0

\* exit code after `except Exception`: sys.exit(3) / fall through to the end
HandlerExit(v) == IF v = "debug" THEN 3 ELSE 0

MaxWait(v) == IF v = "debug" THEN MaxWaitDebug ELSE MaxWaitSimple

\* the statuses on which the poll loop breaks
BreakStatuses(v) ==
    IF v = "debug" THEN {"SUCCEEDED", "FAILED", "ABORTED", "TIMED-OUT"}
    ELSE {"SUCCEEDED", "FAILED", "ABORTED"}

LoopContinuesInclusive(v, w) == w <= MaxWait(v)

\* while waited < max_wait
LoopContinues(v, w) == w < MaxWait(v)

RunNotFailed(st) == st \notin {"FAILED", "ABORTED", "TIMED-OUT"}

\* the test after the loop, negated: status == 'SUCCEEDED'
RunSucceeded(st) == st = "SUCCEEDED"

\* reading the dataset id raises: `if not dataset_id` in the debug script,
\* a KeyError on status_data['data']['defaultDatasetId'] in the simple one
DatasetIdRaises(v, ds) ==
    IF v = "debug" THEN ds \in {"absent", "None"} ELSE ds = "absent"

Msg(st, what) == [status |-> st, msg |-> what]

\* an exception reaches `except Exception` of main: the error object is
\* printed and the process ends
Raise(kind) ==
    /\ stdout' = Append(stdout, Msg("error", "exception"))
    /\ exitCode' = HandlerExit(variant)
    /\ failure' = kind
    /\ pc' = "done"

Init ==
    /\ variant \in Variants
    /\ hasUsername \in BOOLEAN
    /\ tokenEnv \in TokenEnvs
    /\ tweets_count \in TweetsCounts
    /\ pc = "start"
    /\ waited = 0
    /\ status = PyNone
    /\ datasetField = "absent"
    /\ submits = 0
    /\ queries = 0
    /\ fetches = 0
    /\ allRunning = TRUE
    /\ items = <<>>
    /\ idx = 1
    /\ tweets = <<>>
    /\ profile = NoProfile
    /\ report = NoReport
    /\ dirExists \in BOOLEAN
    /\ fileExists = FALSE
    /\ fileChunks = 0
    /\ stdout = <<>>
    /\ exitCode = -1
    /\ failure = "none"
    /\ input = NoInput
    /\ analysis = NoAnalysis
    /\ runs = NoRuns
    /\ disk = NoDisk
    /\ clock = 0

\* argparse rejects a debug run without --username: usage on stderr, exit 2
UsageError ==
    /\ pc = "start" /\ variant = "debug" /\ ~hasUsername
    /\ exitCode' = 2
    /\ failure' = "usage"
    /\ pc' = "done"
    /\ UNCHANGED <<input, analysis, runs, disk, clock,
                   variant, hasUsername, tokenEnv, tweets_count, waited, status,
                   datasetField, submits, queries, fetches, allRunning, items,
                   idx, tweets, profile, report, dirExists, fileExists,
                   fileChunks, stdout>>

\* if not username: print error; return
NoUsername ==
    /\ pc = "start" /\ variant /= "debug" /\ ~hasUsername
    /\ stdout' = Append(stdout, Msg("error", "no_username"))
    /\ exitCode' = 0
    /\ failure' = "no_username"
    /\ pc' = "done"
    /\ UNCHANGED <<input, analysis, runs, disk, clock,
                   variant, hasUsername, tokenEnv, tweets_count, waited, status,
                   datasetField, submits, queries, fetches, allRunning, items,
                   idx, tweets, profile, report, dirExists, fileExists,
                   fileChunks>>

\* if not apify_token: print error; return / sys.exit(1)
MissingCredential ==
    /\ pc = "start" /\ hasUsername
    /\ ~TokenOk(variant, Token(variant, tokenEnv))
    /\ stdout' = Append(stdout, Msg("error", "no_token"))
    /\ exitCode' = NoTokenExit(variant)
    /\ failure' = "no_token"
    /\ pc' = "done"
    /\ UNCHANGED <<input, analysis, runs, disk, clock,
                   variant, hasUsername, tokenEnv, tweets_count, waited, status,
                   datasetField, submits, queries, fetches, allRunning, items,
                   idx, tweets, profile, report, dirExists, fileExists,
                   fileChunks>>

CredentialOk ==
    /\ pc = "start" /\ hasUsername
    /\ TokenOk(variant, Token(variant, tokenEnv))
    /\ pc' = "submit"
    /\ UNCHANGED <<input, analysis, runs, disk, clock,
                   variant, hasUsername, tokenEnv, tweets_count, waited, status,
                   datasetField, submits, queries, fetches, allRunning, items,
                   idx, tweets, profile, report, dirExists, fileExists,
                   fileChunks, stdout, exitCode, failure>>

\* the POST that starts the run answers 201: the simple script has printed
\* its "Scraping ..." object before it, the debug script prints
\* "Run started" after it; max_wait and waited are set
SubmitOk ==
    /\ pc = "submit"
    /\ submits' = submits + 1
    /\ stdout' = Append(stdout, Msg("processing",
                          IF variant = "debug" THEN "run_started" ELSE "scraping"))
    /\ waited' = 0
    /\ pc' = IF LoopContinues(variant, 0) THEN "poll" ELSE "after_loop"
    /\ UNCHANGED <<input, analysis, runs, disk, clock,
                   variant, hasUsername, tokenEnv, tweets_count, status,
                   datasetField, queries, fetches, allRunning, items, idx,
                   tweets, profile, report, dirExists, fileExists, fileChunks,
                   exitCode, failure>>

\* the POST fails (transport error or a status other than 201): raise
SubmitFail ==
    /\ pc = "submit"
    /\ submits' = submits + 1
    /\ stdout' = (IF variant = "debug" THEN stdout
                  ELSE Append(stdout, Msg("processing", "scraping")))
                    \o <<Msg("error", "exception")>>
    /\ exitCode' = HandlerExit(variant)
    /\ failure' = "submit"
    /\ pc' = "done"
    /\ UNCHANGED <<input, analysis, runs, disk, clock,
                   variant, hasUsername, tokenEnv, tweets_count, waited, status,
                   datasetField, queries, fetches, allRunning, items, idx,
                   tweets, profile, report, dirExists, fileExists, fileChunks>>

\* one status query that answers: the status is read and the loop breaks on
\* a status of its break list
PollQuery ==
    /\ pc = "poll"
    /\ \E st \in Statuses, ds \in DatasetFields :
         /\ st /= "SUCCEEDED" => ds = "ds1"
         /\ status' = st
         /\ datasetField' = ds
         /\ allRunning' = (allRunning /\ st = "RUNNING")
         /\ pc' = IF st \in BreakStatuses(variant) THEN "after_loop" ELSE "sleep"
    /\ queries' = queries + 1
    /\ UNCHANGED <<input, analysis, runs, disk, clock,
                   variant, hasUsername, tokenEnv, tweets_count, waited, submits,
                   fetches, items, idx, tweets, profile, report, dirExists,
                   fileExists, fileChunks, stdout, exitCode, failure>>

\* one status query that fails (transport error, HTTP error, a body that is
\* not the expected JSON): raise
PollQueryFail ==
    /\ pc = "poll"
    /\ queries' = queries + 1
    /\ Raise("status_query")
    /\ UNCHANGED <<input, analysis, runs, disk, clock,
                   variant, hasUsername, tokenEnv, tweets_count, waited, status,
                   datasetField, submits, fetches, allRunning, items, idx,
                   tweets, profile, report, dirExists, fileExists, fileChunks>>

\* time.sleep(5); waited += 5; the debug script prints "Waiting..."; then
\* the loop condition is tested
Sleep ==
    /\ pc = "sleep"
    /\ waited' = waited + PollInterval
    /\ stdout' = IF variant = "debug"
                 THEN Append(stdout, Msg("processing", "waiting"))
                 ELSE stdout
    /\ pc' = IF LoopContinues(variant, waited') THEN "poll" ELSE "after_loop"
    /\ UNCHANGED <<input, analysis, runs, disk, clock,
                   variant, hasUsername, tokenEnv, tweets_count, status,
                   datasetField, submits, queries, fetches, allRunning, items,
                   idx, tweets, profile, report, dirExists, fileExists,
                   fileChunks, exitCode, failure>>

\* if status != 'SUCCEEDED': raise
JobNotSucceeded ==
    /\ pc = "after_loop"
    /\ ~RunSucceeded(status)
    /\ Raise(IF status \in TerminalSpec THEN "job_failed" ELSE "poll_timeout")
    /\ UNCHANGED <<input, analysis, runs, disk, clock,
                   variant, hasUsername, tokenEnv, tweets_count, waited, status,
                   datasetField, submits, queries, fetches, allRunning, items,
                   idx, tweets, profile, report, dirExists, fileExists,
                   fileChunks>>

\* the status payload has no usable dataset id: raise
NoDatasetId ==
    /\ pc = "after_loop"
    /\ RunSucceeded(status)
    /\ DatasetIdRaises(variant, datasetField)
    /\ Raise("no_dataset_id")
    /\ UNCHANGED <<input, analysis, runs, disk, clock,
                   variant, hasUsername, tokenEnv, tweets_count, waited, status,
                   datasetField, submits, queries, fetches, allRunning, items,
                   idx, tweets, profile, report, dirExists, fileExists,
                   fileChunks>>

\* the GET of the dataset items answers with the result set
FetchOk ==
    /\ pc = "after_loop"
    /\ RunSucceeded(status)
    /\ ~DatasetIdRaises(variant, datasetField)
    /\ datasetField = "ds1"
    /\ fetches' = fetches + 1
    /\ items' \in ItemLists(MaxItems)
    /\ pc' = "fetched"
    /\ UNCHANGED <<input, analysis, runs, disk, clock,
                   variant, hasUsername, tokenEnv, tweets_count, waited, status,
                   datasetField, submits, queries, allRunning, idx, tweets,
                   profile, report, dirExists, fileExists, fileChunks, stdout,
                   exitCode, failure>>

\* the GET of the dataset items fails: a transport error raises at once; an
\* HTTP error whose body is a JSON error object raises in the first
\* item.get of the loop.  A dataset id of None names no dataset, so that GET
\* can only fail.
FetchFail ==
    /\ pc = "after_loop"
    /\ RunSucceeded(status)
    /\ ~DatasetIdRaises(variant, datasetField)
    /\ fetches' = fetches + 1
    /\ Raise("fetch")
    /\ UNCHANGED <<input, analysis, runs, disk, clock,
                   variant, hasUsername, tokenEnv, tweets_count, waited, status,
                   datasetField, submits, queries, allRunning, items, idx,
                   tweets, profile, report, dirExists, fileExists, fileChunks>>

\* if not items: print error; return / sys.exit(2)
EmptyResult ==
    /\ pc = "fetched"
    /\ items = <<>>
    /\ stdout' = Append(stdout, Msg("error", "no_data"))
    /\ exitCode' = EmptyExit(variant)
    /\ failure' = "empty"
    /\ pc' = "done"
    /\ UNCHANGED <<input, analysis, runs, disk, clock,
                   variant, hasUsername, tokenEnv, tweets_count, waited, status,
                   datasetField, submits, queries, fetches, allRunning, items,
                   idx, tweets, profile, report, dirExists, fileExists,
                   fileChunks>>

\* one iteration of `for item in items`
NormalizeStep ==
    /\ pc = "fetched"
    /\ idx <= Len(items)
    /\ LET r == NormalizeItem(variant, items[idx], tweets, profile)
       IN /\ tweets' = r.tweets
          /\ profile' = r.profile
    /\ idx' = idx + 1
    /\ UNCHANGED <<input, analysis, runs, disk, clock,
                   variant, hasUsername, tokenEnv, tweets_count, pc, waited,
                   status, datasetField, submits, queries, fetches, allRunning,
                   items, report, dirExists, fileExists, fileChunks, stdout,
                   exitCode, failure>>

\* the loop is over: full_data is built
BuildReport ==
    /\ pc = "fetched"
    /\ items /= <<>>
    /\ idx > Len(items)
    /\ report' = FullData(variant, tweets_count, tweets, profile, datasetField)
    /\ pc' = "mkdir"
    /\ UNCHANGED <<input, analysis, runs, disk, clock,
                   variant, hasUsername, tokenEnv, tweets_count, waited, status,
                   datasetField, submits, queries, fetches, allRunning, items,
                   idx, tweets, profile, dirExists, fileExists, fileChunks,
                   stdout, exitCode, failure>>

\* os.makedirs(reports_dir, exist_ok=True)
MakeDirs ==
    /\ pc = "mkdir"
    /\ dirExists' = TRUE
    /\ pc' = "open"
    /\ UNCHANGED <<input, analysis, runs, disk, clock,
                   variant, hasUsername, tokenEnv, tweets_count, waited, status,
                   datasetField, submits, queries, fetches, allRunning, items,
                   idx, tweets, profile, report, fileExists, fileChunks, stdout,
                   exitCode, failure>>

\* open(path, 'w'): the file is created, or truncated, and is empty
OpenFile ==
    /\ pc = "open"
    /\ fileExists' = TRUE
    /\ fileChunks' = 0
    /\ pc' = "dump"
    /\ UNCHANGED <<input, analysis, runs, disk, clock,
                   variant, hasUsername, tokenEnv, tweets_count, waited, status,
                   datasetField, submits, queries, fetches, allRunning, items,
                   idx, tweets, profile, report, dirExists, stdout, exitCode,
                   failure>>

\* json.dump writes the next chunk of the document
DumpChunk ==
    /\ pc = "dump"
    /\ fileChunks < DumpTotal(report)
    /\ fileChunks' = fileChunks + 1
    /\ UNCHANGED <<input, analysis, runs, disk, clock,
                   variant, hasUsername, tokenEnv, tweets_count, pc, waited,
                   status, datasetField, submits, queries, fetches, allRunning,
                   items, idx, tweets, profile, report, dirExists, fileExists,
                   stdout, exitCode, failure>>

\* makedirs, open or a write raises OSError: what is on disk stays as it is
WriteFail ==
    /\ pc \in {"mkdir", "open", "dump"}
    /\ pc = "dump" => fileChunks < DumpTotal(report)
    /\ Raise("write")
    /\ UNCHANGED <<input, analysis, runs, disk, clock,
                   variant, hasUsername, tokenEnv, tweets_count, waited, status,
                   datasetField, submits, queries, fetches, allRunning, items,
                   idx, tweets, profile, report, dirExists, fileExists,
                   fileChunks>>

\* the file is closed complete; the success object is printed
PrintSuccess ==
    /\ pc = "dump"
    /\ fileChunks = DumpTotal(report)
    /\ stdout' = Append(stdout, Msg("success", "result"))
    /\ exitCode' = 0
    /\ pc' = "done"
    /\ UNCHANGED <<input, analysis, runs, disk, clock,
                   variant, hasUsername, tokenEnv, tweets_count, waited, status,
                   datasetField, submits, queries, fetches, allRunning, items,
                   idx, tweets, profile, report, dirExists, fileExists,
                   fileChunks, failure>>

\* from the fetched result set to the printed result
Pipeline ==
    \/ EmptyResult
    \/ NormalizeStep
    \/ BuildReport
    \/ MakeDirs
    \/ OpenFile
    \/ DumpChunk
    \/ WriteFail
    \/ PrintSuccess

Next ==
    \/ UsageError
    \/ NoUsername
    \/ MissingCredential
    \/ CredentialOk
    \/ SubmitOk
    \/ SubmitFail
    \/ PollQuery
    \/ PollQueryFail
    \/ Sleep
    \/ JobNotSucceeded
    \/ NoDatasetId
    \/ FetchOk
    \/ FetchFail
    \/ Pipeline

Spec == Init /\ [][Next]_vars

\* a run is one sequential process: it takes its next step
FairSpec == Spec /\ WF_vars(Next)

----------------------------------------------------------------------------
(* Normalization and report writing of each script, applied to result sets *)

NormInputs ==
    ItemLists(MaxItems) \cup ScenarioLists \cup {<<r>> : r \in AliasRecords}

\* the state of a run whose first status query said SUCCEEDED and whose
\* fetch returned the result set
InitNorm ==
    /\ variant \in Variants
    /\ hasUsername = TRUE
    /\ tokenEnv = "apify_api_x"
    /\ tweets_count \in TweetsCounts
    /\ pc = "fetched"
    /\ waited = 0
    /\ status = "SUCCEEDED"
    /\ datasetField = "ds1"
    /\ submits = 1
    /\ queries = 1
    /\ fetches = 1
    /\ allRunning = FALSE
    /\ items \in NormInputs
    /\ idx = 1
    /\ tweets = <<>>
    /\ profile = NoProfile
    /\ report = NoReport
    /\ dirExists \in BOOLEAN
    /\ fileExists = FALSE
    /\ fileChunks = 0
    /\ stdout = <<Msg("processing",
                      IF variant = "debug" THEN "run_started" ELSE "scraping")>>
    /\ exitCode = -1
    /\ failure = "none"
    /\ input = NoInput
    /\ analysis = NoAnalysis
    /\ runs = NoRuns
    /\ disk = NoDisk
    /\ clock = 0

NextNorm == Pipeline

SpecNorm == InitNorm /\ [][NextNorm]_vars

----------------------------------------------------------------------------
(* Claims about the poll loop *)

\* the progress notifications the poll loop has printed
LoopNotifications ==
    Len(SelectSeq(stdout, LAMBDA m : m = Msg("processing", "waiting")))

HasSuccess == \E i \in 1..Len(stdout) : stdout[i].status = "success"

LastIsError == stdout /= <<>> /\ stdout[Len(stdout)].status = "error"

\* C1: in both polling scripts, once a status query has returned succeeded,
\* failed, aborted or timed-out the loop exits at that query: it neither
\* sleeps again nor queries again.
C1_ExitsAtTerminalStatus ==
    (pc \in {"sleep", "poll"} /\ queries > 0) => status \notin TerminalSpec

\* C2: when every status query has returned RUNNING and the max-wait budget
\* is used up, the run is leaving the loop or has ended with a poll-timeout
\* error: the error object is the last thing printed, no result set was
\* fetched, no report file exists and no success object was printed.
C2_PollTimeoutFails ==
    (queries > 0 /\ allRunning /\ waited >= MaxWait(variant)) =>
        /\ pc \in {"after_loop", "done"}
        /\ fetches = 0
        /\ ~fileExists
        /\ report = NoReport
        /\ ~HasSuccess
        /\ pc = "done" => (failure = "poll_timeout" /\ LastIsError)

\* C2 witness: a run ended by the poll timeout after RUNNING on every query
C2_Witness ==
    /\ pc = "done" /\ allRunning /\ waited = MaxWait(variant)
    /\ queries * PollInterval = MaxWait(variant)
    /\ failure = "poll_timeout"

\* C3: the accumulated wait never exceeds max_wait (120 debug, 60 simple),
\* at most max_wait/5 status queries are made, and a run that is in the
\* poll loop leaves it, whatever statuses the service returns.
C3_NeverPollsPastMaxWait ==
    /\ [](/\ waited <= MaxWait(variant)
          /\ queries * PollInterval <= MaxWait(variant)
          /\ (variant = "debug" => waited <= 120)
          /\ (variant = "simple" => waited <= 60))
    /\ (pc \in {"poll", "sleep"}) ~> (pc \notin {"poll", "sleep"})

\* C3 witness: the loop was left with the whole budget used: max_wait/5
\* queries made, max_wait seconds waited
C3_Witness ==
    /\ pc = "after_loop"
    /\ waited = MaxWait(variant)
    /\ queries * PollInterval = MaxWait(variant)
    /\ status = "READY"

\* C4: every status query of the loop, the one that sees a terminal status
\* included, comes with one progress notification of the loop: whenever the
\* loop is about to query again or has been left, as many notifications
\* were printed as queries were made.
C4_ProgressOnEachPoll ==
    pc \in {"poll", "after_loop"} => LoopNotifications = queries

\* C5: a fetch request is only made after a status payload that says
\* succeeded, and a succeeded payload without a dataset id ends the run with
\* an error, with no fetch request made and no report written.
C5_FetchNeedsDatasetId ==
    /\ fetches > 0 => status = "SUCCEEDED"
    /\ (status = "SUCCEEDED" /\ datasetField \in {"absent", "None"}) =>
          /\ fetches = 0
          /\ ~fileExists
          /\ pc = "done" => (failure = "no_dataset_id" /\ LastIsError)

----------------------------------------------------------------------------
(* Claims about normalization *)

\* the record holds none of the text and url alias keys
LacksAliasKeys(item) == DOMAIN item \cap (TextKeys \cup UrlKeys) = {}

\* the record has no profile marker
LacksProfileMarker(item) ==
    /\ ~("type" \in DOMAIN item /\ item["type"] = "profile")
    /\ "followersCount" \notin DOMAIN item

\* the step taken is one iteration of the normalization loop
IsNormalizeStep == pc = "fetched" /\ idx <= Len(items) /\ idx' = idx + 1

\* C6 as claimed: in every script, a record with no text/url alias key and
\* no profile marker adds nothing to tweets and leaves the profile as it is.
C6_DropsUnrecognized ==
    [][(IsNormalizeStep /\ LacksAliasKeys(items[idx])
          /\ LacksProfileMarker(items[idx]))
        => (tweets' = tweets /\ profile' = profile)]_vars

\* C6 amended: in every script, a record with no text/url alias key, no
\* profile marker and a type other than 'tweet' adds nothing to tweets and
\* leaves the profile as it is.
C6_DropsUnrecognizedUntyped ==
    [][(IsNormalizeStep /\ LacksAliasKeys(items[idx])
          /\ LacksProfileMarker(items[idx])
          /\ ~("type" \in DOMAIN items[idx] /\ items[idx]["type"] = "tweet"))
        => (tweets' = tweets /\ profile' = profile)]_vars

\* C6 witness: the simple script has passed such a record after a content
\* record and holds the one content item and no profile
C6_Witness ==
    /\ variant = "simple"
    /\ pc = "fetched" /\ Len(items) = 2 /\ idx = 3
    /\ items[1] = RTweet /\ items[2] = RJunk
    /\ Len(tweets) = 1
    /\ profile = NoProfile

RECURSIVE FirstPresent(_, _, _)
\* the value of the first alias key the record holds, d when it holds none
FirstPresent(item, aliases, d) ==
    IF aliases = <<>> THEN d
    ELSE IF Head(aliases) \in DOMAIN item THEN item[Head(aliases)]
    ELSE FirstPresent(item, Tail(aliases), d)

RECURSIVE FirstTruthy(_, _, _)
\* the value of the first alias key the record holds with a truthy value,
\* d when there is none
FirstTruthy(item, aliases, d) ==
    IF aliases = <<>> THEN d
    ELSE IF Head(aliases) \in DOMAIN item /\ item[Head(aliases)] \notin Falsy
    THEN item[Head(aliases)]
    ELSE FirstTruthy(item, Tail(aliases), d)

\* the step appends a content item in twitter_scraper.py
ClientAppends ==
    variant = "client" /\ IsNormalizeStep /\ Len(tweets') = Len(tweets) + 1

ContentRecord(v, item) ==
    IF v = "client"
    THEN /\ LacksProfileMarker(item)
         /\ \E k \in TextKeys \cup UrlKeys : k \in DOMAIN item /\ item[k] \notin Falsy
    ELSE "type" \in DOMAIN item /\ item["type"] = "tweet"

\* C8: in every report, metadata.tweets_found is the length of the report's
\* tweets list, which is the number of records of the result set normalized
\* as content items, and the list holds them in result-set order.
C8_TweetsFoundIsContentCount ==
    report /= NoReport =>
        LET sel == SelectSeq(items, LAMBDA r : ContentRecord(variant, r))
        IN /\ report.metadata.tweets_found = Len(report.tweets)
           /\ Len(report.tweets) =
                Cardinality({i \in 1..Len(items) : ContentRecord(variant, items[i])})
           /\ report.tweets =
                [i \in 1..Len(sel) |-> IF variant = "client" THEN ClientTweet(sel[i])
                                       ELSE TypedTweet(sel[i])]

\* C8 witness: the report of 5 content records and 1 profile record,
\* requested with tweets_count = 5, is on disk: tweets_found = 5 and the
\* profile is not null
C8_Witness ==
    /\ items \in ScenarioLists
    /\ tweets_count = 5
    /\ pc = "done" /\ fileExists
    /\ fileChunks = DumpTotal(report)
    /\ report.metadata.tweets_found = 5
    /\ report.profile /= NoProfile

----------------------------------------------------------------------------
(* Claims about the report file and the printed result *)

\* C9: at every point of a run a reader of the output path finds no file
\* or the complete report.
C9_ReportAllOrNothing ==
    fileExists => (report /= NoReport /\ fileChunks = DumpTotal(report))

\* the error objects printed
ErrorsPrinted == Len(SelectSeq(stdout, LAMBDA m : m.status = "error"))

\* C10: a run ended by a missing credential, a failed submit, a failed
\* status query, a job that ended failed/aborted/timed-out, a poll timeout,
\* a missing dataset id, a failed fetch, an empty result set or a failed
\* write has printed one error object, last, and no success object; its
\* exit code is 0 in twitter_scraper.py and twitter_scraper_simple.py and
\* not 0 in twitter_scraper_debug.py.  (argparse rejecting the arguments of
\* the debug script is no run.)
C10_FailuresPrintErrorEnvelope ==
    (pc = "done" /\ failure \notin {"none", "usage"}) =>
        /\ LastIsError
        /\ ErrorsPrinted = 1
        /\ ~HasSuccess
        /\ variant \in {"client", "simple"} => exitCode = 0
        /\ variant = "debug" => exitCode > 0

\* C10 witness: a debug run whose job ended ABORTED has printed the error
\* object and exited with 3
C10_Witness ==
    /\ pc = "done" /\ variant = "debug" /\ failure = "job_failed"
    /\ status = "ABORTED"
    /\ LastIsError
    /\ exitCode = 3

----------------------------------------------------------------------------
(* Claims about the credential check *)

\* C11: in every script a run given a username with APIFY_API_TOKEN set
\* goes on to submit a job, and a run given a username with the variable
\* unset ends with an error object printed and nothing submitted.
C11_CredentialIsOnlyGate ==
    /\ (hasUsername /\ tokenEnv /= "" /\ pc /= "start") =>
          /\ failure /= "no_token"
          /\ pc = "submit" \/ submits > 0
    /\ (hasUsername /\ tokenEnv = "" /\ pc /= "start") =>
          /\ pc = "done" /\ failure = "no_token"
          /\ LastIsError
          /\ submits = 0

----------------------------------------------------------------------------
(* analyzer.py: the file-stat tool *)

\* longest input file, in characters
MaxLen == 3

\* the characters of an input file: a letter, a digit, space, line feed,
\* carriage return, form feed
Alphabet == {"a", "1", "SP", "LF", "CR", "FF"}

\* the characters str.split() splits on
Whitespace == {"SP", "LF", "CR", "FF"}

\* the characters str.splitlines() ends a line at ("CR" "LF" as one)
LineBoundaries == {"LF", "CR", "FF"}

Texts(n) == UNION {[1..k -> Alphabet] : k \in 0..n}

\* what --input_file names: nothing (no argument), a path that does not
\* exist, a path whose read raises, a file with its characters
Inputs ==
    {NoInput, [kind |-> "missing"], [kind |-> "unreadable"]}
      \cup {[kind |-> "file", chars |-> c] : c \in Texts(MaxLen)}

RECURSIVE ReadText(_)
\* open(path, 'r').read(): universal newlines turn "\r\n" and "\r" into "\n"
ReadText(chars) ==
    IF chars = <<>> THEN <<>>
    ELSE IF Head(chars) = "CR"
         THEN IF Len(chars) >= 2 /\ chars[2] = "LF"
              THEN <<"LF">> \o ReadText(Tail(Tail(chars)))
              ELSE <<"LF">> \o ReadText(Tail(chars))
         ELSE <<Head(chars)>> \o ReadText(Tail(chars))

RECURSIVE SplitScan(_, _)
\* the words met scanning s, inWord telling whether a word is under way
SplitScan(s, inWord) ==
    IF s = <<>> THEN 0
    ELSE IF Head(s) \in Whitespace THEN SplitScan(Tail(s), FALSE)
    ELSE (IF inWord THEN 0 ELSE 1) + SplitScan(Tail(s), TRUE)

\* len(content.split())
WordCount(content) == SplitScan(content, FALSE)

RECURSIVE LinesScan(_, _)
\* the lines met scanning s, pending telling whether an unended line is
\* under way
LinesScan(s, pending) ==
    IF s = <<>> THEN (IF pending THEN 1 ELSE 0)
    ELSE IF Head(s) = "CR" /\ Len(s) >= 2 /\ s[2] = "LF"
         THEN 1 + LinesScan(Tail(Tail(s)), FALSE)
    ELSE IF Head(s) \in LineBoundaries THEN 1 + LinesScan(Tail(s), FALSE)
    ELSE LinesScan(Tail(s), TRUE)

RECURSIVE CountLF(_)
\* content.count('\n')
CountLF(s) ==
    IF s = <<>> THEN 0
    ELSE (IF Head(s) = "LF" THEN 1 ELSE 0) + CountLF(Tail(s))

LineCountNewlines(content) == CountLF(content)

\* len(content.splitlines())
LineCount(content) == LinesScan(content, FALSE)

\* any(c.isdigit() for c in content)
HasNumbers(content) == \E i \in 1..Len(content) : content[i] = "1"

\* analysis_result of a file that was read (content_preview is the whole
\* content: it is cut only beyond 100 characters)
Analyze(content) ==
    [status          |-> "success",
     content_length  |-> Len(content),
     content_preview |-> content,
     word_count      |-> WordCount(content),
     line_count      |-> LineCount(content),
     has_numbers     |-> HasNumbers(content)]

InitAnalyzer ==
    /\ variant = "analyzer"
    /\ input \in Inputs
    /\ analysis = NoAnalysis
    /\ pc = "start"
    /\ stdout = <<>>
    /\ exitCode = -1
    /\ failure = "none"
    /\ hasUsername = FALSE
    /\ tokenEnv = ""
    /\ tweets_count = DefaultTweetsCount
    /\ waited = 0
    /\ status = PyNone
    /\ datasetField = "absent"
    /\ submits = 0
    /\ queries = 0
    /\ fetches = 0
    /\ allRunning = TRUE
    /\ items = <<>>
    /\ idx = 1
    /\ tweets = <<>>
    /\ profile = NoProfile
    /\ report = NoReport
    /\ dirExists = FALSE
    /\ fileExists = FALSE
    /\ fileChunks = 0
    /\ runs = NoRuns
    /\ disk = NoDisk
    /\ clock = 0

\* if not args.input_file: print error; return
AnalyzerNoInput ==
    /\ variant = "analyzer" /\ pc = "start"
    /\ input.kind = "none"
    /\ stdout' = Append(stdout, Msg("error", "no_input"))
    /\ exitCode' = 0
    /\ failure' = "no_input"
    /\ pc' = "done"
    /\ UNCHANGED <<input, analysis, runs, disk, clock,
                   variant, hasUsername, tokenEnv, tweets_count, waited, status,
                   datasetField, submits, queries, fetches, allRunning, items,
                   idx, tweets, profile, report, dirExists, fileExists,
                   fileChunks>>

\* the file exists and is read: the statistics are computed and printed
AnalyzerSuccess ==
    /\ variant = "analyzer" /\ pc = "start"
    /\ input.kind = "file"
    /\ analysis' = Analyze(ReadText(input.chars))
    /\ stdout' = Append(stdout, Msg("success", "analysis"))
    /\ exitCode' = 0
    /\ pc' = "done"
    /\ UNCHANGED <<input, runs, disk, clock,
                   variant, hasUsername, tokenEnv, tweets_count, waited, status,
                   datasetField, submits, queries, fetches, allRunning, items,
                   idx, tweets, profile, report, dirExists, fileExists,
                   fileChunks, failure>>

\* the path does not exist, or open/read raises: the error result is printed
AnalyzerError ==
    /\ variant = "analyzer" /\ pc = "start"
    /\ input.kind \in {"missing", "unreadable"}
    /\ analysis' = [status |-> "error",
                    message |-> IF input.kind = "missing" THEN "not_found"
                                ELSE "processing"]
    /\ stdout' = Append(stdout, Msg("error", analysis'.message))
    /\ exitCode' = 0
    /\ failure' = input.kind
    /\ pc' = "done"
    /\ UNCHANGED <<input, runs, disk, clock,
                   variant, hasUsername, tokenEnv, tweets_count, waited, status,
                   datasetField, submits, queries, fetches, allRunning, items,
                   idx, tweets, profile, report, dirExists, fileExists,
                   fileChunks>>

NextAnalyzer ==
    \/ AnalyzerNoInput
    \/ AnalyzerSuccess
    \/ AnalyzerError

SpecAnalyzer == InitAnalyzer /\ [][NextAnalyzer]_vars

----------------------------------------------------------------------------
(* Claims about the file-stat tool *)

\* the words of c: the places where a run of non-whitespace starts
Tokens(c) ==
    Cardinality({i \in 1..Len(c) :
                   c[i] \notin Whitespace /\ (i = 1 \/ c[i - 1] \in Whitespace)})

\* the newline characters of c
NewlineChars(c) == Cardinality({i \in 1..Len(c) : c[i] = "LF"})

\* the lines of c: its line breaks, and one more when c is not empty and
\* does not end in a line break
Lines(c) ==
    Cardinality({i \in 1..Len(c) : c[i] \in {"LF", "FF"}})
      + (IF c /= <<>> /\ c[Len(c)] \notin {"LF", "FF"} THEN 1 ELSE 0)

Analyzed == pc = "done" /\ input.kind = "file" /\ analysis /= NoAnalysis

\* C12 as claimed: for every file read, word_count is the number of
\* whitespace-separated words of the content and line_count the number of
\* newline characters of the content.
C12_CountsMatchNewlineCount ==
    Analyzed =>
        /\ analysis.status = "success"
        /\ analysis.word_count = Tokens(analysis.content_preview)
        /\ analysis.line_count = NewlineChars(analysis.content_preview)

\* C12 amended: for every file read, word_count is the number of
\* whitespace-separated words of the content and line_count the number of
\* lines of the content: its line breaks (newlines, and the other
\* characters str.splitlines ends a line at, such as form feed), plus one
\* when the content is not empty and does not end in a line break.
C12_CountsMatchLines ==
    Analyzed =>
        /\ analysis.status = "success"
        /\ analysis.word_count = Tokens(analysis.content_preview)
        /\ analysis.line_count = Lines(analysis.content_preview)
        /\ "CR" \notin {analysis.content_preview[i] :
                          i \in 1..Len(analysis.content_preview)}

\* C12 witness: a file of two words on two lines, the last one not ended by
\* a newline, was analysed: 2 words, 2 lines, 1 newline character
C12_Witness ==
    /\ Analyzed
    /\ input.chars = <<"a", "CR", "1">>
    /\ analysis.content_preview = <<"a", "LF", "1">>
    /\ analysis.word_count = 2
    /\ analysis.line_count = 2

----------------------------------------------------------------------------
(* Two scraper runs writing their reports at the same time.  Each run is   *)
(* a process of its own, past normalization, about to take its timestamp;  *)
(* the runs share the reports directory and the clock.                     *)

\* seconds the clock can advance during the runs
MaxClock == 2

Runs == {1, 2}

Users == {"alice", "bob"}

\* twitter_{username}_{timestamp}.json: a path is the username and the
\* second of the timestamp
Paths == Users \X (0..MaxClock)

PathOf(run) == <<run.user, run.ts>>

\* os.makedirs(reports_dir, exist_ok=True)
ExistOk == TRUE

\* makedirs raises FileExistsError
MakedirsRaises(exist_ok, exists) == exists /\ ~exist_ok

\* chunks json.dump writes for a report of the simple script
ConcChunks == DumpTotal(FullData("simple", DefaultTweetsCount, <<>>, NoProfile, "ds1"))

AbsentFile == [exists |-> FALSE, content |-> <<>>]

\* a write of run r at offset k of a file: the file grows to hold it, a gap
\* reads as 0
WriteAt(content, k, r) ==
    [i \in 1..(IF Len(content) > k THEN Len(content) ELSE k + 1) |->
        IF i = k + 1 THEN r
        ELSE IF i <= Len(content) THEN content[i] ELSE 0]

\* the variables of the single run and of the analyzer
singleRunVars ==
    <<variant, hasUsername, tokenEnv, tweets_count, pc, waited, status,
      datasetField, submits, queries, fetches, allRunning, items, idx,
      tweets, profile, report, dirExists, fileExists, fileChunks, stdout,
      exitCode, failure, input, analysis>>

InitConc ==
    /\ runs \in [Runs -> {[pc |-> "timestamp", user |-> u, ts |-> 0, offset |-> 0] :
                            u \in Users}]
    /\ disk \in {[dir |-> d, files |-> [p \in Paths |-> AbsentFile]] : d \in BOOLEAN}
    /\ clock = 0
    /\ variant = "simple"
    /\ hasUsername = TRUE
    /\ tokenEnv = "apify_api_x"
    /\ tweets_count = DefaultTweetsCount
    /\ pc = "concurrent"
    /\ waited = 0
    /\ status = "SUCCEEDED"
    /\ datasetField = "ds1"
    /\ submits = 0
    /\ queries = 0
    /\ fetches = 0
    /\ allRunning = FALSE
    /\ items = <<>>
    /\ idx = 1
    /\ tweets = <<>>
    /\ profile = NoProfile
    /\ report = NoReport
    /\ dirExists = FALSE
    /\ fileExists = FALSE
    /\ fileChunks = 0
    /\ stdout = <<>>
    /\ exitCode = -1
    /\ failure = "none"
    /\ input = NoInput
    /\ analysis = NoAnalysis

\* a second passes
Tick ==
    /\ clock < MaxClock
    /\ clock' = clock + 1
    /\ UNCHANGED <<runs, disk, singleRunVars>>

\* timestamp = datetime.datetime.now().strftime("%Y%m%d_%H%M%S")
ConcTimestamp(r) ==
    /\ runs[r].pc = "timestamp"
    /\ runs' = [runs EXCEPT ![r].ts = clock, ![r].pc = "mkdir"]
    /\ UNCHANGED <<disk, clock, singleRunVars>>

\* os.makedirs(reports_dir, exist_ok=True): the run fails when it raises
ConcMakeDirs(r) ==
    /\ runs[r].pc = "mkdir"
    /\ IF MakedirsRaises(ExistOk, disk.dir)
       THEN /\ runs' = [runs EXCEPT ![r].pc = "failed"]
            /\ disk' = disk
       ELSE /\ runs' = [runs EXCEPT ![r].pc = "open"]
            /\ disk' = [disk EXCEPT !.dir = TRUE]
    /\ UNCHANGED <<clock, singleRunVars>>

\* open(json_filepath, 'w'): the file at the run's path is created or
\* truncated
ConcOpen(r) ==
    /\ runs[r].pc = "open"
    /\ disk' = [disk EXCEPT !.files[PathOf(runs[r])] =
                              [exists |-> TRUE, content |-> <<>>]]
    /\ runs' = [runs EXCEPT ![r].pc = "dump", ![r].offset = 0]
    /\ UNCHANGED <<clock, singleRunVars>>

\* json.dump writes the run's next chunk at the run's offset
ConcDump(r) ==
    /\ runs[r].pc = "dump"
    /\ runs[r].offset < ConcChunks
    /\ disk' = [disk EXCEPT !.files[PathOf(runs[r])].content =
                              WriteAt(@, runs[r].offset, r)]
    /\ runs' = [runs EXCEPT ![r].offset = @ + 1]
    /\ UNCHANGED <<clock, singleRunVars>>

\* the file is closed and the run prints its success object
ConcFinish(r) ==
    /\ runs[r].pc = "dump"
    /\ runs[r].offset = ConcChunks
    /\ runs' = [runs EXCEPT ![r].pc = "done"]
    /\ UNCHANGED <<disk, clock, singleRunVars>>

NextConc ==
    \/ Tick
    \/ \E r \in Runs : ConcTimestamp(r)
    \/ \E r \in Runs : ConcMakeDirs(r)
    \/ \E r \in Runs : ConcOpen(r)
    \/ \E r \in Runs : ConcDump(r)
    \/ \E r \in Runs : ConcFinish(r)

SpecConc == InitConc /\ [][NextConc]_vars

----------------------------------------------------------------------------
(* Claims about concurrent runs *)

\* the complete report of run r
ReportOf(r) == [i \in 1..ConcChunks |-> r]

\* C13: for any interleaving of two runs, neither run fails on the reports
\* directory the other created, and the report file a run has written and
\* reported as saved holds that run's complete report from then on, also
\* when both runs are for the same username and take their timestamp in
\* the same second.
C13_ConcurrentRunsDoNotInterfere ==
    \A r \in Runs :
        /\ runs[r].pc /= "failed"
        /\ runs[r].pc = "done" =>
              /\ disk.files[PathOf(runs[r])].exists
              /\ disk.files[PathOf(runs[r])].content = ReportOf(r)

====
